---- MODULE Spec2Model ----
(***************************************************************************)
(* modelcluster.queryset: the filter-predicate compiler (test_exact ...    *)
(* test_gte, _build_test_function_from_filter) and FakeQuerySet, the       *)
(* in-memory stand-in for a Django QuerySet.                               *)
(*                                                                         *)
(* Python objects with identity (lists, FakeQuerySets) live in two heaps,  *)
(* `lists` and `sets`; the index of an object in its heap is its identity. *)
(* Model instances are immutable here and are named by their identity.     *)
(***************************************************************************)
EXTENDS Integers, Sequences, FiniteSets, TLC

\* Longest sequence handed to the FakeQuerySet constructor.
MaxLen == 2
\* List objects alive at once.
MaxLists == 3

VARIABLES
    lists,   \* heap of Python lists: lists[l] is the content of list object l
    sets,    \* heap of FakeQuerySets: sets[q] = [model, results], results a list id
    call     \* the call in progress: what was called, with what, and its outcome

vars == <<lists, sets, call>>

----------------------------------------------------------------------------
(* Python values.  A value carries its type so that == between values of   *)
(* different types is False, as in Python.                                 *)

PyInt(n) == [t |-> "int", v |-> n]
PyStr(s) == [t |-> "str", v |-> s]
PyRef(id) == [t |-> "model", v |-> id]

\* Strings are sequences of characters; "__" is one separator symbol of a key.
SEP == "__"

\* str.upper()
Upper(s) ==
    [i \in 1..Len(s) |->
        CASE s[i] = "a" -> "A"
          [] s[i] = "b" -> "B"
          [] OTHER -> s[i]]

\* `a in b` for strings: a is a contiguous part of b
StrIn(a, b) ==
    \E i \in 0..(Len(b) - Len(a)) : SubSeq(b, i + 1, i + Len(a)) = a

\* One decimal digit, as int() reads it and str() writes it.
Digit(c) == CASE c = "1" -> 1 [] c = "2" -> 2 [] OTHER -> 0
DigitChar(n) == CASE n = 1 -> "1" [] n = 2 -> "2" [] OTHER -> "0"

----------------------------------------------------------------------------
(* The host model layer: classes, related instances, held instances.       *)

\* Classes of the related model: Child inherits from Parent, Other is unrelated.
Mro(cls) ==
    CASE cls = "Child" -> {"Child", "Parent"}
      [] cls = "Parent" -> {"Parent"}
      [] OTHER -> {cls}

\* Related instances, by identity.  pk is {} for None (unsaved), {n} for n.
\* U1 and U2 are two distinct unsaved instances with identical field values.
Related ==
    [U1 |-> [cls |-> "Parent", pk |-> {}],
     U2 |-> [cls |-> "Parent", pk |-> {}],
     P1 |-> [cls |-> "Parent", pk |-> {1}],
     C1 |-> [cls |-> "Child", pk |-> {1}],
     P2 |-> [cls |-> "Parent", pk |-> {2}],
     O1 |-> [cls |-> "Other", pk |-> {1}]]

RelIds == DOMAIN Related

\* isinstance(a, b.__class__) for related instances a, b
IsInstanceOfClassOf(a, b) == Related[b].cls \in Mro(Related[a].cls)

\* The instances a FakeQuerySet may hold, by identity, with their attributes.
Instances ==
    [A |-> [x |-> PyInt(1), y |-> PyInt(1), name |-> PyStr(<<"a", "b">>), rel |-> PyRef("U1")],
     B |-> [x |-> PyInt(1), y |-> PyInt(2), name |-> PyStr(<<"A", "B">>), rel |-> PyRef("P1")],
     C |-> [x |-> PyInt(2), y |-> PyInt(1), name |-> PyStr(<<"b">>), rel |-> PyRef("C1")]]

ObjIds == DOMAIN Instances

\* model._meta.fields, in declaration order, and model._meta.object_name
Fields == <<"x", "y", "name", "rel">>
ObjectName == "Item"

FieldType(attribute_name) ==
    CASE attribute_name \in {"x", "y"} -> "IntegerField"
      [] attribute_name = "name" -> "CharField"
      [] OTHER -> "ForeignKey"

\* getattr(obj, attribute_name)
GetAttr(obj, attribute_name) == Instances[obj][attribute_name]

\* field.to_python(value): IntegerField is int(value), CharField is str(value)
ToPython(attribute_name, value) ==
    CASE FieldType(attribute_name) = "IntegerField" /\ value.t = "str" ->
            PyInt(Digit(value.v[1]))
      [] FieldType(attribute_name) = "CharField" /\ value.t = "int" ->
            PyStr(<<DigitChar(value.v)>>)
      [] OTHER -> value

----------------------------------------------------------------------------
(* The predicate compiler.  A test function is the closure the constructor *)
(* returns: the branch taken, the attribute, and the captured value.       *)

test_exact(attribute_name, value) ==
    IF value.t = "model"
    THEN IF Related[value.v].pk = {}
         THEN [fn |-> "is", attr |-> attribute_name, value |-> value]
         ELSE [fn |-> "same_model", attr |-> attribute_name, value |-> value]
    ELSE [fn |-> "eq", attr |-> attribute_name,
          value |-> ToPython(attribute_name, value)]

test_iexact(attribute_name, value) ==
    [fn |-> "iexact", attr |-> attribute_name,
     value |-> PyStr(Upper(ToPython(attribute_name, value).v))]

test_contains(attribute_name, value) ==
    [fn |-> "contains", attr |-> attribute_name,
     value |-> ToPython(attribute_name, value)]

test_icontains(attribute_name, value) ==
    [fn |-> "icontains", attr |-> attribute_name,
     value |-> PyStr(Upper(ToPython(attribute_name, value).v))]

test_lt(attribute_name, value) ==
    [fn |-> "lt", attr |-> attribute_name, value |-> ToPython(attribute_name, value)]

test_lte(attribute_name, value) ==
    [fn |-> "lte", attr |-> attribute_name, value |-> ToPython(attribute_name, value)]

test_gt(attribute_name, value) ==
    [fn |-> "gt", attr |-> attribute_name, value |-> ToPython(attribute_name, value)]

test_gte(attribute_name, value) ==
    [fn |-> "gte", attr |-> attribute_name, value |-> ToPython(attribute_name, value)]

\* Variant of SameModel that accepts only an attribute of the value's class or
\* of a subclass of it.
SameModel_oneway(value, other_value) ==
    IF ~IsInstanceOfClassOf(other_value, value)
    THEN FALSE
    ELSE Related[value].pk = Related[other_value].pk

\* The body of the _test closure of test_exact (saved model instance).
SameModel(value, other_value) ==
    IF ~(IsInstanceOfClassOf(value, other_value) \/ IsInstanceOfClassOf(other_value, value))
    THEN FALSE
    ELSE Related[value].pk = Related[other_value].pk

\* Calling a test function on one instance.
Apply(test, obj) ==
    LET a == GetAttr(obj, test.attr) IN
    CASE test.fn = "is" -> a.t = "model" /\ a.v = test.value.v
      [] test.fn = "same_model" -> a.t = "model" /\ SameModel(test.value.v, a.v)
      [] test.fn = "eq" -> a.t = test.value.t /\ a.v = test.value.v
      [] test.fn = "iexact" -> Upper(a.v) = test.value.v
      [] test.fn = "contains" -> StrIn(test.value.v, a.v)
      [] test.fn = "icontains" -> StrIn(test.value.v, Upper(a.v))
      [] test.fn = "lt" -> a.v < test.value.v
      [] test.fn = "lte" -> a.v <= test.value.v
      [] test.fn = "gt" -> a.v > test.value.v
      [] test.fn = "gte" -> a.v >= test.value.v

FILTER_EXPRESSION_TOKENS ==
    {"exact", "iexact", "contains", "icontains", "lt", "lte", "gt", "gte"}

Constructor(token, attribute_name, value) ==
    CASE token = "exact" -> test_exact(attribute_name, value)
      [] token = "iexact" -> test_iexact(attribute_name, value)
      [] token = "contains" -> test_contains(attribute_name, value)
      [] token = "icontains" -> test_icontains(attribute_name, value)
      [] token = "lt" -> test_lt(attribute_name, value)
      [] token = "lte" -> test_lte(attribute_name, value)
      [] token = "gt" -> test_gt(attribute_name, value)
      [] token = "gte" -> test_gte(attribute_name, value)

\* key.split('__'): the runs of characters between separators
RECURSIVE Split(_)
Split(key) ==
    IF \A i \in 1..Len(key) : key[i] # SEP
    THEN <<key>>
    ELSE LET i == CHOOSE i \in 1..Len(key) :
                     key[i] = SEP /\ \A j \in 1..(i - 1) : key[j] # SEP
         IN <<SubSeq(key, 1, i - 1)>> \o Split(SubSeq(key, i + 1, Len(key)))

\* A clause is a string; the names of this model are one symbol long.
Name(clause) == IF Len(clause) = 1 THEN clause[1] ELSE "?"

\* Variant that reads the first two clauses of a longer key.
_build_test_function_from_filter_prefix(key_clauses, val) ==
    IF Len(key_clauses) = 1
    THEN [exc |-> "none", test |-> test_exact(Name(key_clauses[1]), val)]
    ELSE IF Len(key_clauses) >= 2 /\ Name(key_clauses[2]) \in FILTER_EXPRESSION_TOKENS
    THEN [exc |-> "none",
          test |-> Constructor(Name(key_clauses[2]), Name(key_clauses[1]), val)]
    ELSE [exc |-> "NotImplementedError", test |-> <<>>]

\* Returns the test function, or raises NotImplementedError.
_build_test_function_from_filter(key_clauses, val) ==
    IF Len(key_clauses) = 1
    THEN [exc |-> "none", test |-> test_exact(Name(key_clauses[1]), val)]
    ELSE IF Len(key_clauses) = 2 /\ Name(key_clauses[2]) \in FILTER_EXPRESSION_TOKENS
    THEN [exc |-> "none",
          test |-> Constructor(Name(key_clauses[2]), Name(key_clauses[1]), val)]
    ELSE [exc |-> "NotImplementedError", test |-> <<>>]

\* FakeQuerySet._get_filters: kwargs is the sequence of (key, value) items in
\* dict order.  The first key that cannot be built raises; nothing is returned.
RECURSIVE _get_filters(_)
_get_filters(kwargs) ==
    IF kwargs = <<>>
    THEN [exc |-> "none", filters |-> <<>>]
    ELSE LET built == _build_test_function_from_filter(Split(kwargs[1][1]), kwargs[1][2]) IN
         IF built.exc # "none"
         THEN [exc |-> built.exc, filters |-> <<>>]
         ELSE LET rest == _get_filters(Tail(kwargs)) IN
              IF rest.exc # "none"
              THEN rest
              ELSE [exc |-> "none", filters |-> <<built.test>> \o rest.filters]

\* all([test(obj) for test in filters])
AllPass(filters, obj) == \A i \in 1..Len(filters) : Apply(filters[i], obj)

\* Variants of the two comprehensions with any() in the place of all().
FilteredResults_any(results, filters) ==
    SelectSeq(results, LAMBDA obj : \E i \in 1..Len(filters) : Apply(filters[i], obj))

ExcludedResults_any(results, filters) ==
    SelectSeq(results, LAMBDA obj : ~\E i \in 1..Len(filters) : Apply(filters[i], obj))

\* The list comprehensions of filter and exclude.
FilteredResults(results, filters) ==
    SelectSeq(results, LAMBDA obj : AllPass(filters, obj))

ExcludedResults(results, filters) ==
    SelectSeq(results, LAMBDA obj : ~AllPass(filters, obj))

----------------------------------------------------------------------------
(* sort_by_fields (modelcluster.utils): a stable sort by the last field,   *)
(* then by the one before it, ...; a leading "-" reverses that field.      *)

\* Where e goes in the sorted prefix: before the first element that must
\* come after it, so that equal keys keep their order.
InsertPos(sorted, e, attribute_name, reverse) ==
    LET k(o) == GetAttr(o, attribute_name).v
        after == {i \in 1..Len(sorted) :
                    IF reverse THEN k(sorted[i]) < k(e) ELSE k(sorted[i]) > k(e)}
    IN IF after = {} THEN Len(sorted) + 1
       ELSE CHOOSE i \in after : \A j \in after : i <= j

RECURSIVE StableSort(_, _, _, _)
StableSort(sorted, rest, attribute_name, reverse) ==
    IF rest = <<>>
    THEN sorted
    ELSE LET p == InsertPos(sorted, Head(rest), attribute_name, reverse) IN
         StableSort(SubSeq(sorted, 1, p - 1) \o <<Head(rest)>>
                       \o SubSeq(sorted, p, Len(sorted)),
                    Tail(rest), attribute_name, reverse)

RECURSIVE sort_by_fields(_, _)
sort_by_fields(items, fields) ==
    IF fields = <<>>
    THEN items
    ELSE LET key == fields[Len(fields)]
             reverse == key[1] = "-"
             attribute_name == IF reverse THEN Name(Tail(key)) ELSE Name(key)
         IN sort_by_fields(StableSort(<<>>, items, attribute_name, reverse),
                           SubSeq(fields, 1, Len(fields) - 1))

----------------------------------------------------------------------------
(* FakeQuerySet.                                                           *)

\* FakeQuerySet.__init__(model, results): keeps the reference it is given.
FakeQuerySet(model, results) == [model |-> model, results |-> results]

\* The sequence a result set holds.
Contents(q) == lists[sets[q].results]

Idle == [op |-> "idle", recv |-> 0, args |-> <<>>, exc |-> "none",
         msg |-> <<>>, val |-> [kind |-> "none"], fresh |-> [lists |-> 0, sets |-> 0]]

NoFresh == [lists |-> 0, sets |-> 0]

\* The record of a call that raised.
Raised(op, q, args, exc, msg) ==
    [op |-> op, recv |-> q, args |-> args, exc |-> exc, msg |-> msg,
     val |-> [kind |-> "none"], fresh |-> NoFresh]

\* The record of a call that returned val, having created `fresh` objects.
Returned(op, q, args, val, fresh) ==
    [op |-> op, recv |-> q, args |-> args, exc |-> "none", msg |-> <<>>,
     val |-> val, fresh |-> fresh]

\* A call that returns a new FakeQuerySet wrapping the new list `results`.
ReturnNewSet(op, q, args, results) ==
    /\ Len(lists) < MaxLists
    /\ lists' = Append(lists, results)
    /\ sets' = Append(sets, FakeQuerySet(sets[q].model, Len(lists) + 1))
    /\ call' = Returned(op, q, args, [kind |-> "FakeQuerySet", id |-> Len(sets) + 1],
                        [lists |-> 1, sets |-> 1])

filter(q, kwargs) ==
    /\ call.op = "idle"
    /\ LET f == _get_filters(kwargs) IN
       IF f.exc # "none"
       THEN /\ call' = Raised("filter", q, kwargs, f.exc, <<>>)
            /\ UNCHANGED <<lists, sets>>
       ELSE ReturnNewSet("filter", q, kwargs, FilteredResults(Contents(q), f.filters))

exclude(q, kwargs) ==
    /\ call.op = "idle"
    /\ LET f == _get_filters(kwargs) IN
       IF f.exc # "none"
       THEN /\ call' = Raised("exclude", q, kwargs, f.exc, <<>>)
            /\ UNCHANGED <<lists, sets>>
       ELSE ReturnNewSet("exclude", q, kwargs, ExcludedResults(Contents(q), f.filters))

\* Variant of get that returns the first match whenever there is one.
GetOutcome_first(q, kwargs) ==
    LET f == _get_filters(kwargs) IN
    IF f.exc # "none"
    THEN Raised("get", q, kwargs, f.exc, <<>>)
    ELSE LET results == FilteredResults(Contents(q), f.filters) IN
         IF Len(results) = 0
         THEN Raised("get", q, kwargs, "DoesNotExist", [object_name |-> sets[q].model])
         ELSE Returned("get", q, kwargs, [kind |-> "instance", id |-> results[1]], NoFresh)

\* get: the result set self.filter builds is dropped when get returns.
GetOutcome(q, kwargs) ==
    LET f == _get_filters(kwargs) IN
    IF f.exc # "none"
    THEN Raised("get", q, kwargs, f.exc, <<>>)
    ELSE LET results == FilteredResults(Contents(q), f.filters)
             result_count == Len(results)
         IN IF result_count = 0
            THEN Raised("get", q, kwargs, "DoesNotExist",
                        [object_name |-> sets[q].model])
            ELSE IF result_count = 1
            THEN Returned("get", q, kwargs,
                          [kind |-> "instance", id |-> results[1]], NoFresh)
            ELSE Raised("get", q, kwargs, "MultipleObjectsReturned",
                        [object_name |-> sets[q].model, count |-> result_count])

get(q, kwargs) ==
    /\ call.op = "idle"
    /\ call' = GetOutcome(q, kwargs)
    /\ UNCHANGED <<lists, sets>>

\* tuple([getattr(obj, field_name) for field_name in field_names])
Row(obj, field_names) ==
    [j \in 1..Len(field_names) |-> GetAttr(obj, field_names[j])]

\* Variant of values_list that tests flat first and wants exactly one field.
ValuesListOutcome_flatfirst(q, fields, flat) ==
    LET results == Contents(q)
        args == [fields |-> fields, flat |-> flat]
        field_names == IF fields = <<>> THEN Fields ELSE fields
    IN IF flat /\ Len(fields) # 1
       THEN Raised("values_list", q, args, "TypeError", <<>>)
       ELSE IF flat
       THEN Returned("values_list", q, args,
                     [kind |-> "values",
                      rows |-> [i \in 1..Len(results) |->
                                   GetAttr(results[i], fields[1])]],
                     NoFresh)
       ELSE Returned("values_list", q, args,
                     [kind |-> "values",
                      rows |-> [i \in 1..Len(results) |-> Row(results[i], field_names)]],
                     NoFresh)

ValuesListOutcome(q, fields, flat) ==
    LET results == Contents(q)
        args == [fields |-> fields, flat |-> flat]
    IN IF fields = <<>>
       THEN Returned("values_list", q, args,
                     [kind |-> "values",
                      rows |-> [i \in 1..Len(results) |-> Row(results[i], Fields)]],
                     NoFresh)
       ELSE IF flat
       THEN IF Len(fields) > 1
            THEN Raised("values_list", q, args, "TypeError", <<>>)
            ELSE Returned("values_list", q, args,
                          [kind |-> "values",
                           rows |-> [i \in 1..Len(results) |->
                                        GetAttr(results[i], fields[1])]],
                          NoFresh)
       ELSE Returned("values_list", q, args,
                     [kind |-> "values",
                      rows |-> [i \in 1..Len(results) |-> Row(results[i], fields)]],
                     NoFresh)

values_list(q, fields, flat) ==
    /\ call.op = "idle"
    /\ call' = ValuesListOutcome(q, fields, flat)
    /\ UNCHANGED <<lists, sets>>

\* results = self.results[:]; sort_by_fields(results, fields)
OrderedResults(results, fields) == sort_by_fields(results, fields)

\* Variant of order_by without the copy: the held list is sorted in place and
\* the new result set wraps it.
order_by_inplace(q, fields) ==
    /\ call.op = "idle"
    /\ Len(lists) < MaxLists
    /\ lists' = [lists EXCEPT ![sets[q].results] = OrderedResults(Contents(q), fields)]
    /\ sets' = Append(sets, FakeQuerySet(sets[q].model, sets[q].results))
    /\ call' = Returned("order_by", q, fields,
                        [kind |-> "FakeQuerySet", id |-> Len(sets) + 1],
                        [lists |-> 0, sets |-> 1])

order_by(q, fields) ==
    /\ call.op = "idle"
    /\ ReturnNewSet("order_by", q, fields, OrderedResults(Contents(q), fields))

\* list[start:stop] with 0 <= start, stop: a new list
Slice(results, start, stop) ==
    SubSeq(results, start + 1, IF stop < Len(results) THEN stop ELSE Len(results))

\* __getitem__(k): self.results[k], k an index or a slice
__getitem__(q, k) ==
    /\ call.op = "idle"
    /\ IF k.kind = "slice"
       THEN /\ Len(lists) < MaxLists
            /\ lists' = Append(lists, Slice(Contents(q), k.start, k.stop))
            /\ call' = Returned("__getitem__", q, k,
                                [kind |-> "list", id |-> Len(lists) + 1],
                                [lists |-> 1, sets |-> 0])
            /\ UNCHANGED sets
       ELSE /\ call' = IF k.start < Len(Contents(q))
                       THEN Returned("__getitem__", q, k,
                                     [kind |-> "instance", id |-> Contents(q)[k.start + 1]],
                                     NoFresh)
                       ELSE Raised("__getitem__", q, k, "IndexError", <<>>)
            /\ UNCHANGED <<lists, sets>>

\* _get_result_cache: the held list itself
_get_result_cache(q) ==
    /\ call.op = "idle"
    /\ call' = Returned("_get_result_cache", q, <<>>,
                        [kind |-> "list", id |-> sets[q].results], NoFresh)
    /\ UNCHANGED <<lists, sets>>

\* Variant of the setter that keeps the reference: self.results = val
SetResultCacheHeap_alias(q, src) ==
    [lists |-> lists,
     sets |-> [sets EXCEPT ![q].results = src]]

\* The heaps after self.results = list(val), val the list object src.
SetResultCacheHeap(q, src) ==
    [lists |-> Append(lists, lists[src]),
     sets |-> [sets EXCEPT ![q].results = Len(lists) + 1]]

_set_result_cache(q, src) ==
    /\ call.op = "idle"
    /\ Len(lists) < MaxLists
    /\ lists' = SetResultCacheHeap(q, src).lists
    /\ sets' = SetResultCacheHeap(q, src).sets
    /\ call' = Returned("_set_result_cache", q, src, [kind |-> "none"], NoFresh)

----------------------------------------------------------------------------
(* The caller.                                                             *)

\* The caller changes a list it holds a reference to: del l[:]
list_clear(l) ==
    /\ call.op = "idle"
    /\ lists[l] # <<>>
    /\ lists' = [lists EXCEPT ![l] = <<>>]
    /\ call' = Returned("list.clear", 0, l, [kind |-> "none"], NoFresh)
    /\ UNCHANGED sets

\* The caller keeps what the call returned.
Keep ==
    /\ call.op # "idle"
    /\ call' = Idle
    /\ UNCHANGED <<lists, sets>>

\* The caller drops what the call returned; the objects it created are freed.
Discard ==
    /\ call.op # "idle"
    /\ call' = Idle
    /\ lists' = SubSeq(lists, 1, Len(lists) - call.fresh.lists)
    /\ sets' = SubSeq(sets, 1, Len(sets) - call.fresh.sets)

----------------------------------------------------------------------------
(* Inputs.                                                                 *)

Lists == UNION {[1..n -> ObjIds] : n \in 0..MaxLen}

\* Keyword arguments: (key, value) items, keys as strings of symbols.
IntItems ==
    {<<<<"x">>, PyInt(1)>>, <<<<"x">>, PyInt(2)>>, <<<<"x">>, PyStr(<<"2">>)>>,
     <<<<"y">>, PyInt(1)>>, <<<<"y">>, PyInt(2)>>,
     <<<<"x", SEP, "exact">>, PyInt(1)>>,
     <<<<"y", SEP, "lt">>, PyInt(2)>>,
     <<<<"y", SEP, "lte">>, PyInt(1)>>,
     <<<<"x", SEP, "gt">>, PyInt(1)>>,
     <<<<"x", SEP, "gte">>, PyInt(2)>>}

StrItems ==
    {<<<<"name">>, PyStr(<<"a", "b">>)>>,
     <<<<"name", SEP, "iexact">>, PyStr(<<"a", "b">>)>>,
     <<<<"name", SEP, "contains">>, PyStr(<<"b">>)>>,
     <<<<"name", SEP, "icontains">>, PyStr(<<"a">>)>>}

RelItems ==
    {<<<<"rel">>, PyRef(r)>> : r \in RelIds}
        \cup {<<<<"rel", SEP, "exact">>, PyRef("P2")>>}

BadItems ==
    {<<<<"x", SEP, "y", SEP, "lt">>, PyInt(1)>>,
     <<<<"y", SEP, "lt", SEP, "x">>, PyInt(2)>>,
     <<<<"x", SEP, "in">>, PyInt(1)>>,
     <<<<"rel", SEP, "pk">>, PyInt(1)>>}

Items == IntItems \cup StrItems \cup RelItems \cup BadItems

\* The items combined in calls with two keywords.
PairItems ==
    {<<<<"x">>, PyInt(1)>>, <<<<"y">>, PyInt(1)>>, <<<<"y">>, PyInt(2)>>,
     <<<<"y", SEP, "lt">>, PyInt(2)>>, <<<<"rel">>, PyRef("P1")>>,
     <<<<"x", SEP, "in">>, PyInt(1)>>}

Kwargs ==
    {<<>>} \cup {<<i>> : i \in Items}
        \cup {<<p[1], p[2]>> : p \in {p \in PairItems \X PairItems : p[1][1] # p[2][1]}}

\* The keyword arguments of the calls whose results the caller keeps.
ChainKwargs ==
    {<<>>, <<<<<<"x">>, PyInt(1)>>>>, <<<<<<"y">>, PyInt(1)>>>>,
     <<<<<<"x">>, PyInt(1)>>, <<<<"y">>, PyInt(1)>>>>}

OrderFields ==
    {<<<<"x">>>>, <<<<"y">>, <<"-", "x">>>>}

Subscripts ==
    {[kind |-> "index", start |-> 0, stop |-> 0],
     [kind |-> "slice", start |-> 0, stop |-> 1],
     [kind |-> "slice", start |-> 1, stop |-> MaxLen]}

FieldLists == {<<>>, <<"x">>, <<"x", "rel">>}

----------------------------------------------------------------------------
(* Specifications.                                                         *)

\* FakeQuerySet(model, results) on a list the caller built.
Init ==
    /\ lists \in {<<l>> : l \in Lists}
    /\ sets = <<FakeQuerySet(ObjectName, 1)>>
    /\ call = Idle

\* Calls whose results the caller may keep and use again.
Next ==
    \/ \E q \in 1..Len(sets), kwargs \in ChainKwargs : filter(q, kwargs)
    \/ \E q \in 1..Len(sets), kwargs \in ChainKwargs : exclude(q, kwargs)
    \/ \E q \in 1..Len(sets), fields \in OrderFields : order_by(q, fields)
    \/ \E q \in 1..Len(sets), k \in Subscripts : __getitem__(q, k)
    \/ \E q \in 1..Len(sets) : _get_result_cache(q)
    \/ \E q \in 1..Len(sets), src \in 1..Len(lists) : _set_result_cache(q, src)
    \/ \E l \in 1..Len(lists) : list_clear(l)
    \/ Keep
    \/ Discard

Spec == Init /\ [][Next]_vars

\* Single queries over every keyword combination; results are dropped.
NextQuery ==
    \/ \E q \in 1..Len(sets), kwargs \in Kwargs : filter(q, kwargs)
    \/ \E q \in 1..Len(sets), kwargs \in Kwargs : exclude(q, kwargs)
    \/ \E q \in 1..Len(sets), kwargs \in Kwargs : get(q, kwargs)
    \/ \E q \in 1..Len(sets), fields \in FieldLists, flat \in BOOLEAN :
          values_list(q, fields, flat)
    \/ Discard

SpecQuery == Init /\ [][NextQuery]_vars

----------------------------------------------------------------------------
(* Properties.  The vocabulary first.                                      *)

\* The held sequence of the receiver of the call in progress.
Receiver == Contents(call.recv)

\* The held sequence of the result set the call in progress returned.
Result == Contents(call.val.id)

\* A key of one segment, or of two whose second is an operator token.
SupportedKey(key) ==
    LET c == Split(key) IN
    \/ Len(c) = 1
    \/ Len(c) = 2 /\ c[2] \in {<<"exact">>, <<"iexact">>, <<"contains">>, <<"icontains">>,
                               <<"lt">>, <<"lte">>, <<"gt">>, <<"gte">>}

Supported(kwargs) == \A n \in 1..Len(kwargs) : SupportedKey(kwargs[n][1])

\* obj passes the test function built from one keyword.
PassesItem(obj, item) ==
    Apply(_build_test_function_from_filter(Split(item[1]), item[2]).test, obj)

\* The positions of R whose instance passes every test function built from kwargs.
Matching(R, kwargs) ==
    {i \in 1..Len(R) : \A n \in 1..Len(kwargs) : PassesItem(R[i], kwargs[n])}

\* The instances of R at the positions S, in R's order.
Pick(R, S) ==
    [j \in 1..Cardinality(S) |->
        R[CHOOSE i \in S : Cardinality({k \in S : k <= i}) = j]]

\* F and E split R: every position of R goes to exactly one of them, and each
\* keeps R's relative order.
Partition(R, F, E) ==
    \E S \in SUBSET (1..Len(R)) :
        /\ Len(F) = Cardinality(S) /\ \A j \in 1..Len(F) : F[j] = Pick(R, S)[j]
        /\ Len(E) = Len(R) - Cardinality(S)
        /\ \A j \in 1..Len(E) : E[j] = Pick(R, (1..Len(R)) \ S)[j]

\* T is exactly Pick(R, S).
IsPick(T, R, S) ==
    /\ Len(T) = Cardinality(S)
    /\ \A j \in 1..Len(T) : T[j] = Pick(R, S)[j]

----------------------------------------------------------------------------
\* C1: filter(**kwargs) with supported kwargs returns a result set holding
\* exactly the instances of the receiver that pass every test function built
\* from kwargs, in the receiver's order, none added or duplicated; with empty
\* kwargs it holds all of them.
C1_FilterKeepsExactlyThePassing ==
    (call.op = "filter" /\ Supported(call.args)) =>
        /\ call.exc = "none"
        /\ call.val.kind = "FakeQuerySet"
        /\ IsPick(Result, Receiver, Matching(Receiver, call.args))
        /\ (call.args = <<>> => Result = Receiver)

\* A filter with two keywords that keeps one instance and drops another.
C1_Witness ==
    /\ call.op = "filter" /\ call.exc = "none"
    /\ Len(call.args) = 2
    /\ Len(Receiver) = 2
    /\ Result = <<Receiver[2]>>

\* C2: exclude(**kwargs) keeps, in the receiver's order, exactly the instances
\* that fail at least one condition; an instance is removed only if it passes
\* every condition at once.  With A(x=1,y=1) and B(x=1,y=2), exclude(x=1,y=1)
\* keeps B but not A.
C2_ExcludeRemovesOnlyFullMatches ==
    (call.op = "exclude" /\ Supported(call.args)) =>
        /\ call.exc = "none"
        /\ call.val.kind = "FakeQuerySet"
        /\ IsPick(Result, Receiver,
                  {i \in 1..Len(Receiver) :
                      \E n \in 1..Len(call.args) : ~PassesItem(Receiver[i], call.args[n])})
        /\ (/\ Receiver = <<"A", "B">>
            /\ call.args = <<<<<<"x">>, PyInt(1)>>, <<<<"y">>, PyInt(1)>>>>
            => Result = <<"B">>)

\* exclude(x=1, y=1) on [A, B]: B passes x=1 and is kept all the same.
C2_Witness ==
    /\ call.op = "exclude" /\ call.exc = "none"
    /\ Receiver = <<"A", "B">>
    /\ call.args = <<<<<<"x">>, PyInt(1)>>, <<<<"y">>, PyInt(1)>>>>
    /\ Result = <<"B">>

\* One step: a get call with supported kwargs, and what it must end in.
C3_GetStep ==
    (call.op = "idle" /\ call'.op = "get" /\ Supported(call'.args)) =>
        LET R == Contents(call'.recv)
            M == Matching(R, call'.args)
            n == Cardinality(M)
        IN /\ n = 0 => call'.exc = "DoesNotExist" /\ call'.val.kind = "none"
           /\ n = 1 => /\ call'.exc = "none"
                       /\ call'.val.kind = "instance"
                       /\ \A i \in M : call'.val.id = R[i]
           /\ n > 1 => /\ call'.exc = "MultipleObjectsReturned"
                       /\ call'.msg.count = n
                       /\ call'.val.kind = "none"
           /\ lists' = lists
           /\ sets' = sets

\* C3: get(**kwargs) with supported kwargs has one of three outcomes, decided
\* by the number n of instances of the receiver that match: n = 0 raises
\* DoesNotExist, n = 1 returns the matching instance itself, n > 1 raises
\* MultipleObjectsReturned with n in its message.  The receiver and its held
\* sequence are unchanged in every case.
C3_GetOutcomeByMatchCount == [][C3_GetStep]_vars

\* get raised MultipleObjectsReturned for two matches out of two held.
C3_Witness ==
    /\ call.op = "get"
    /\ call.exc = "MultipleObjectsReturned"
    /\ call.msg.count = 2
    /\ call.args # <<>>

\* The classes of two related instances are compatible; the match the claim
\* describes.
C4_Compatible(a, b) ==
    \/ Related[a].cls = Related[b].cls
    \/ <<Related[a].cls, Related[b].cls>> \in {<<"Child", "Parent">>, <<"Parent", "Child">>}

C4_Passes(attr, value) ==
    IF Related[value].pk = {}
    THEN attr = value
    ELSE C4_Compatible(attr, value) /\ Related[attr].pk = Related[value].pk

\* C4: an exact test against a model instance.  Unsaved value: an instance
\* passes only when its attribute is that very object.  Saved value: it passes
\* exactly when the two types are compatible (one is the other's class or a
\* subclass of it) and the primary keys are equal.
C4_ExactAgainstModelInstance ==
    (/\ call.op = "filter"
     /\ Len(call.args) = 1
     /\ call.args[1][1] \in {<<"rel">>, <<"rel", SEP, "exact">>}
     /\ call.args[1][2].t = "model") =>
        /\ call.exc = "none"
        /\ IsPick(Result, Receiver,
                  {i \in 1..Len(Receiver) :
                      C4_Passes(Instances[Receiver[i]].rel.v, call.args[1][2].v)})
        \* an equal but distinct unsaved instance matches nothing held
        /\ (call.args[1][2].v = "U2" => Result = <<>>)

\* filter(rel=C1) on [A, B]: B's rel is P1, of the parent class, with C1's pk.
C4_Witness ==
    /\ call.op = "filter" /\ call.exc = "none"
    /\ call.args = <<<<<<"rel">>, PyRef("C1")>>>>
    /\ Receiver = <<"A", "B">>
    /\ Result = <<"B">>
    /\ Related["U1"] = Related["U2"]

\* One step: a filter, exclude or get call with an unsupported key.
C6_UnsupportedStep ==
    (/\ call.op = "idle"
     /\ call'.op \in {"filter", "exclude", "get"}
     /\ ~Supported(call'.args)) =>
        /\ call'.exc = "NotImplementedError"
        /\ call'.val.kind = "none"
        /\ lists' = lists
        /\ sets' = sets

\* C6: a key of more than two segments, or of two whose second is no operator
\* token, makes filter, exclude and get raise NotImplementedError whatever the
\* receiver holds (nothing too); no result is produced and nothing changes.
C6_UnsupportedKeyRaisesEagerly == [][C6_UnsupportedStep]_vars

\* exclude raised on an empty receiver, for a key of three segments.
C6_Witness ==
    /\ call.op = "exclude"
    /\ call.exc = "NotImplementedError"
    /\ Receiver = <<>>
    /\ \E n \in 1..Len(call.args) : Len(Split(call.args[n][1])) = 3

\* C7 as stated: with flat set, any number of fields other than one raises
\* (stated for a receiver that holds instances).
C7_FlatNeedsExactlyOneField ==
    (/\ call.op = "values_list" /\ call.args.flat /\ Len(call.args.fields) # 1
     /\ Receiver # <<>>) =>
        call.exc = "TypeError"

\* C7, amended: flat with more than one field raises TypeError; flat with one
\* field gives the N values in held order; without flat, or with no fields at
\* all (flat or not), the result is N tuples in held order, one entry per
\* requested field, or per declared field when none is requested.
C7_ValuesList ==
    call.op = "values_list" =>
        LET fields == call.args.fields
            flat == call.args.flat
            N == Len(Receiver)
            F == IF fields = <<>> THEN <<"x", "y", "name", "rel">> ELSE fields
        IN /\ (flat /\ Len(fields) > 1) => call.exc = "TypeError" /\ call.val.kind = "none"
           /\ (flat /\ Len(fields) = 1) =>
                /\ call.exc = "none"
                /\ Len(call.val.rows) = N
                /\ \A i \in 1..N : call.val.rows[i] = Instances[Receiver[i]][fields[1]]
           /\ (~flat \/ fields = <<>>) =>
                /\ call.exc = "none"
                /\ Len(call.val.rows) = N
                /\ \A i \in 1..N :
                      /\ Len(call.val.rows[i]) = Len(F)
                      /\ \A j \in 1..Len(F) :
                            call.val.rows[i][j] = Instances[Receiver[i]][F[j]]

\* values_list(flat=True) with no fields returned tuples for two instances.
C7_Witness ==
    /\ call.op = "values_list"
    /\ call.args.flat /\ call.args.fields = <<>>
    /\ call.exc = "none"
    /\ Len(Receiver) = 2
    /\ Len(call.val.rows) = 2

\* C9 as stated: filter and exclude partition the receiver only when kwargs
\* has a single key.  Stated for the receiver [A, B] of the spec's example,
\* the call without keywords set aside.
C9_PartitionOnlyForOneKey ==
    (/\ call.op = "exclude" /\ call.exc = "none" /\ call.args # <<>>
     /\ Receiver = <<"A", "B">>
     /\ Partition(Receiver,
                  FilteredResults(Receiver, _get_filters(call.args).filters),
                  Result)) =>
        Len(call.args) = 1

\* C9, amended: for every supported kwargs, of any number of keys, what
\* filter returns and what exclude returns partition the receiver.
C9_FilterAndExcludePartition ==
    /\ (call.op = "exclude" /\ Supported(call.args)) =>
          /\ call.exc = "none"
          /\ Partition(Receiver,
                       FilteredResults(Receiver, _get_filters(call.args).filters),
                       Result)
    /\ (call.op = "filter" /\ Supported(call.args)) =>
          /\ call.exc = "none"
          /\ Partition(Receiver,
                       Result,
                       ExcludedResults(Receiver, _get_filters(call.args).filters))

\* exclude with two keys, where filter keeps one of two instances and exclude
\* the other.
C9_Witness ==
    /\ call.op = "exclude" /\ call.exc = "none"
    /\ Len(call.args) = 2
    /\ Len(Receiver) = 2
    /\ Len(Result) = 1
    /\ Len(FilteredResults(Receiver, _get_filters(call.args).filters)) = 1

\* How often the instance o occurs in the sequence R.
Count(R, o) == Cardinality({i \in 1..Len(R) : R[i] = o})

\* C5 as stated: filter, exclude, order_by and slice indexing each return a
\* new result set (stated for a receiver that holds instances).
C5_EveryOperationReturnsAResultSet ==
    (/\ call.exc = "none"
     /\ call.op # "idle" /\ call.recv # 0 /\ Receiver # <<>>
     /\ \/ call.op \in {"filter", "exclude", "order_by"}
        \/ call.op = "__getitem__" /\ call.args.kind = "slice") =>
        call.val.kind = "FakeQuerySet"

\* Every list and result set that existed before the step is as it was.
C5_HeapsUntouched ==
    /\ \A l \in 1..Len(lists) : lists'[l] = lists[l]
    /\ \A s \in 1..Len(sets) : sets'[s] = sets[s]

\* One step: a call that derives a result from the receiver, or that replaces
\* the contents of a result set.
C5_Step ==
    /\ (/\ call.op = "idle" /\ call'.exc = "none"
        /\ call'.op \in {"filter", "exclude", "order_by"}) =>
          LET R == Contents(call'.recv)
              new == call'.val.id
          IN /\ call'.val.kind = "FakeQuerySet"
             /\ new \in DOMAIN sets' /\ new \notin DOMAIN sets
             /\ sets'[new].results \in DOMAIN lists'
             /\ sets'[new].results \notin DOMAIN lists
             /\ \A o \in ObjIds : Count(lists'[sets'[new].results], o) <= Count(R, o)
             /\ call'.op = "order_by" =>
                  \A o \in ObjIds : Count(lists'[sets'[new].results], o) = Count(R, o)
             /\ C5_HeapsUntouched
    /\ (/\ call.op = "idle" /\ call'.exc = "none"
        /\ call'.op = "__getitem__" /\ call'.args.kind = "slice") =>
          LET R == Contents(call'.recv)
              new == call'.val.id
          IN /\ call'.val.kind = "list"
             /\ new \in DOMAIN lists' /\ new \notin DOMAIN lists
             /\ \A o \in ObjIds : Count(lists'[new], o) <= Count(R, o)
             /\ C5_HeapsUntouched
    /\ (call.op = "idle" /\ call'.op = "_set_result_cache") =>
          \A s \in DOMAIN sets :
             s # call'.recv =>
                /\ sets'[s] = sets[s]
                /\ lists'[sets'[s].results] = lists[sets[s].results]

\* C5, amended: filter, exclude and order_by return a new result set that owns
\* a new list of references to instances of the receiver (order_by: all of
\* them); slice indexing returns a new plain list of such references, not a
\* result set.  None of them changes a result set or a list that existed, and
\* replacing the contents of one result set changes no other.
C5_OperationsLeaveTheReceiverUntouched == [][C5_Step]_vars

\* The contents of a produced result set (the second) were replaced while the
\* first still holds its two instances.
C5_Witness ==
    /\ call.op = "_set_result_cache"
    /\ call.recv = 2
    /\ Len(Contents(1)) = 2
    /\ Contents(2) # Contents(1)
    /\ sets[1].results = 1

\* The keys of two kwargs are disjoint.
DisjointKeys(f1, f2) ==
    \A m \in 1..Len(f1), n \in 1..Len(f2) : f1[m][1] # f2[n][1]

\* C8: when the receiver of filter(**f2) holds what filter(**f1) returns for a
\* result set R, and f1 and f2 have disjoint keys, the result holds what the
\* single call R.filter(**{**f1, **f2}) returns.
C8_ChainedFiltersEqualMergedFilter ==
    (call.op = "filter" /\ call.exc = "none") =>
        \A q1 \in DOMAIN sets :
            \A f1 \in ChainKwargs :
                (/\ DisjointKeys(f1, call.args)
                 /\ Receiver = FilteredResults(Contents(q1), _get_filters(f1).filters)) =>
                    Result = FilteredResults(Contents(q1),
                                             _get_filters(f1 \o call.args).filters)

\* R.filter(x=1).filter(y=1), each call dropping an instance of [B, C].
C8_Witness ==
    /\ call.op = "filter" /\ call.exc = "none"
    /\ call.recv = 2
    /\ call.args = <<<<<<"y">>, PyInt(1)>>>>
    /\ Contents(1) = <<"B", "C">>
    /\ Contents(2) = <<"B">>
    /\ Result = <<>>

\* One step: a call of the _result_cache setter.
C10_Step ==
    (call.op = "idle" /\ call'.op = "_set_result_cache") =>
        LET q == call'.recv
            L == call'.args
            new == sets'[q].results
        IN /\ new \in DOMAIN lists'
           /\ lists'[new] = lists[L]
           /\ new \notin DOMAIN lists
           /\ \A s \in DOMAIN sets' : s # q => sets'[s].results # new
           /\ \A l \in DOMAIN lists : lists'[l] = lists[l]

\* C10: setting _result_cache to the list L gives the result set a fresh list
\* holding exactly the instances of L in order.  The fresh list is no list that
\* existed (not L, not the one held before) and no other result set holds it;
\* every list that existed, the one held before included, is unmodified.
C10_SetResultCacheBuildsAFreshList == [][C10_Step]_vars

\* The first result set was given the two instances of another list; the list
\* it held before is still there with other contents.
C10_Witness ==
    /\ call.op = "_set_result_cache"
    /\ call.recv = 1
    /\ call.args # 1
    /\ sets[1].results \notin {1, call.args}
    /\ Contents(1) = lists[call.args]
    /\ Len(Contents(1)) = 1
    /\ Len(lists[1]) = 2

====
